---- MODULE Spec2Model ----
(***************************************************************************)
(* The Shelter Pet Priority Board of src/streamlit.py: one Streamlit       *)
(* script, run top to bottom on every user interaction.                    *)
(*                                                                         *)
(* Four specifications share the module:                                   *)
(*   Spec      the session: script runs over a loaded table, the animal    *)
(*             type filter, the row selection and the detail panel;        *)
(*   SpecScore the three places that turn a score into a risk band;        *)
(*   SpecRow   generate_full_dashboard_html and Primary_Concern on one row; *)
(*   SpecShap  the sentence built from one relative difference.            *)
(***************************************************************************)
EXTENDS Integers, Sequences, FiniteSets, TLC

\* ---- bounds of the model ------------------------------------------------
MaxPets == 3
MaxScore == 100
MaxShap == 1000

\* ---- values ---------------------------------------------------------------
\* session_state.selected_pet_id = None (no AnimalID is negative in the model)
None == -1
\* a missing cell of the table (pandas NaN)
NaN == "NaN"
\* the Animal_Type values and predicted_score values of the session's tables
AnimalTypeValues == {"Cat", "Dog", NaN}
SessionScores == {30, 70}

VARIABLES
    \* the session
    df,                     \* the table s3 holds: a sequence of rows
    where_has_str,          \* whether np.where(...) at 252 yields a value with .str
    selected_pet_id,        \* st.session_state.selected_pet_id
    selected_animal_types,  \* the multiselect's value in the last run
    event_rows,             \* event.selection.rows: 0 = [], i = [i-1]
    rerun_pending,          \* st.rerun() was called: the script restarts
    s3_ok,                  \* whether s3 answered the last run's load
    load_attempts,          \* s3.get_object calls of the last run
    messages,               \* st.error / st.warning / exception boxes of the last run
    filter_built,           \* the sidebar filter was rendered in the last run
    filtered_df,            \* filtered_df of the last run
    category_chart,         \* rows per adoptability_category fed to the chart
    score_hist,             \* the predicted_score values fed to the histogram
    df_display,             \* the triage list shown in the last run
    panel,                  \* what "Pet Details" showed in the last run
    \* a pair of scores (SpecScore)
    score,                  \* a predicted_score
    other_score,            \* a second predicted_score, not below the first
    adoptability_category,  \* the adoptability_category column for the two
    cell_style,             \* the style of the Score cell of score
    detail_risk,            \* progress_color, risk_category of score
    \* one row (SpecRow)
    pet_data, detail_html, Primary_Concern,
    \* one relative difference (SpecShap)
    raw_shap, statistic

sessionVars == <<df, where_has_str, selected_pet_id, selected_animal_types,
                 event_rows, rerun_pending, s3_ok, load_attempts, messages,
                 filter_built, filtered_df, category_chart, score_hist,
                 df_display, panel>>
scoreVars == <<score, other_score, adoptability_category, cell_style, detail_risk>>
rowVars == <<pet_data, detail_html, Primary_Concern>>
shapVars == <<raw_shap, statistic>>
vars == <<sessionVars, scoreVars, rowVars, shapVars>>

\* ---- the risk bands -------------------------------------------------------
\* the thresholds taken as strict
get_adoptability_category_strict(s) ==
    IF s < 33 THEN "High Risk"
    ELSE IF s < 66 THEN "Medium Risk"
    ELSE "Low Risk"

\* lines 199-202
get_adoptability_category(s) ==
    IF s <= 33 THEN "High Risk"
    ELSE IF s <= 66 THEN "Medium Risk"
    ELSE "Low Risk"

\* lines 213-215: the chart's colour scale, category -> colour
ChartColor(category) ==
    CASE category = "High Risk" -> "#FF6B6B"
      [] category = "Medium Risk" -> "#FFD166"
      [] category = "Low Risk" -> "#06D6A0"

\* lines 161-168: the background colour of a Score cell
color_score(val) ==
    IF val < 25 THEN "background-color: #FF6B6B; color: white"
    ELSE IF val < 50 THEN "background-color: #FFD166"
    ELSE "background-color: #06D6A0; color: white"

\* lines 112-114: progress_color, risk_category of the detail panel
DetailRisk(s) ==
    IF s < 25 THEN [progress_color |-> "bg-red-500", risk_category |-> "High Risk"]
    ELSE IF s < 50 THEN [progress_color |-> "bg-yellow-500", risk_category |-> "Medium Risk"]
    ELSE [progress_color |-> "bg-green-500", risk_category |-> "Low Risk"]

\* nothing computed yet
NoCategory == [first |-> "", second |-> "", color |-> ""]
NoRisk == [progress_color |-> "", risk_category |-> ""]

\* ---- the table ------------------------------------------------------------
\* The tables s3 may hold: 1..MaxPets rows, AnimalID unique (0, 1, ...), any
\* Animal_Type (NaN included) and any score of SessionScores.
Tables ==
    UNION { { [i \in 1..n |-> [AnimalID |-> i - 1,
                               Animal_Type |-> f[i][1],
                               predicted_score |-> f[i][2]]]
              : f \in [1..n -> AnimalTypeValues \X SessionScores] }
            : n \in 1..MaxPets }

\* a load that swallows the exception without telling the user
load_data_silently(ok) ==
    IF ok
    THEN [data |-> df, loaded |-> TRUE, attempts |-> 1, shown |-> {}]
    ELSE [data |-> <<>>, loaded |-> FALSE, attempts |-> 1, shown |-> {}]

\* lines 24-36: one get_object call; any exception becomes st.error and None
load_data_from_s3(ok) ==
    IF ok
    THEN [data |-> df, loaded |-> TRUE, attempts |-> 1, shown |-> {}]
    ELSE [data |-> <<>>, loaded |-> FALSE, attempts |-> 1,
          shown |-> {"error: Error loading data from S3"}]

\* line 188: sorted(df['Animal_Type'].dropna().unique()), as a set
animal_types(d) == {d[i].Animal_Type : i \in DOMAIN d} \ {NaN}

\* line 196: filtered_df[filtered_df['Animal_Type'].isin(selected)]
IsIn(d, sel) == SelectSeq(d, LAMBDA r : r.Animal_Type \in sel)

\* a filter applied to the empty selection too
FilterRowsAlways(d, sel) == IsIn(d, sel)

\* lines 186-196: the copy, filtered only when the selection is not empty
FilterRows(d, sel) == IF sel # {} THEN IsIn(d, sel) ELSE d

\* line 204: the adoptability_category column
WithCategory(d) ==
    [i \in DOMAIN d |->
        [AnimalID |-> d[i].AnimalID,
         Animal_Type |-> d[i].Animal_Type,
         predicted_score |-> d[i].predicted_score,
         adoptability_category |-> get_adoptability_category(d[i].predicted_score)]]

\* lines 210-218: the rows the category chart counts, per category
CategoryCounts(d) ==
    [c \in {"High Risk", "Medium Risk", "Low Risk"} |->
        Cardinality({i \in DOMAIN d : d[i].adoptability_category = c})]

\* lines 230-234: the values the histogram bins
HistogramInput(d) == [i \in DOMAIN d |-> d[i].predicted_score]

\* line 238: sort_values(by="predicted_score", ascending=True); rows of equal
\* score keep the table's order
RECURSIVE InsertByScore(_, _)
InsertByScore(r, s) ==
    IF s = <<>> THEN <<r>>
    ELSE IF r.predicted_score < Head(s).predicted_score THEN <<r>> \o s
    ELSE <<Head(s)>> \o InsertByScore(r, Tail(s))

RECURSIVE SortByScore(_)
SortByScore(d) ==
    IF d = <<>> THEN <<>>
    ELSE InsertByScore(d[Len(d)], SortByScore(SubSeq(d, 1, Len(d) - 1)))

\* lines 259-262: the columns of the triage list, in sorted order
Display(sorted) ==
    [i \in DOMAIN sorted |->
        [Pet_ID |-> sorted[i].AnimalID, Score |-> sorted[i].predicted_score,
         Style |-> color_score(sorted[i].predicted_score)]]

\* lines 274-279: the id the selection event puts in the session state; rerun
\* says whether st.rerun() ends the run there
SelectionEvent(display, ev, current) ==
    IF ev > 0 /\ display[ev].Pet_ID # current
    THEN [selected |-> display[ev].Pet_ID, rerun |-> TRUE]
    ELSE [selected |-> current, rerun |-> FALSE]

NoPanel == [kind |-> "none", pet_id |-> None]

\* a panel that clears the selection it does not find
PetDetailsClearing(sid, sorted) ==
    IF sid # None /\ sid # 0
    THEN IF \E i \in DOMAIN sorted : sorted[i].AnimalID = sid
         THEN [kind |-> "detail", pet_id |-> sid, selected |-> sid]
         ELSE [kind |-> "not_found", pet_id |-> None, selected |-> None]
    ELSE [kind |-> "click", pet_id |-> None, selected |-> sid]

\* lines 291-303: the Pet Details column; selected is what it leaves in
\* session_state.selected_pet_id
PetDetails(sid, sorted) ==
    IF sid # None /\ sid # 0
    THEN IF \E i \in DOMAIN sorted : sorted[i].AnimalID = sid
         THEN [kind |-> "detail", pet_id |-> sid, selected |-> sid]
         ELSE [kind |-> "not_found", pet_id |-> None, selected |-> sid]
    ELSE [kind |-> "click", pet_id |-> None, selected |-> sid]

\* lines 176-306: one run of the script, the table load included, with the
\* multiselect at sel and the table's selection at ev
MainWorkflow(ok, sel, ev) ==
    LET res == load_data_from_s3(ok) IN
    /\ s3_ok' = ok
    /\ load_attempts' = res.attempts
    /\ selected_animal_types' = sel
    /\ event_rows' = ev
    /\ IF ~res.loaded
       THEN \* lines 305-306
            /\ messages' = res.shown \cup {"warning: Data could not be loaded"}
            /\ filter_built' = FALSE
            /\ filtered_df' = <<>>
            /\ category_chart' = CategoryCounts(<<>>)
            /\ score_hist' = <<>>
            /\ df_display' = <<>>
            /\ panel' = NoPanel
            /\ rerun_pending' = FALSE
            /\ UNCHANGED selected_pet_id
       ELSE LET filtered == WithCategory(FilterRows(res.data, sel))
                sorted == SortByScore(filtered)
                display == Display(sorted)
            IN
            /\ filter_built' = TRUE
            /\ filtered_df' = filtered
            /\ category_chart' = CategoryCounts(filtered)
            /\ score_hist' = HistogramInput(filtered)
            /\ IF ~where_has_str
               THEN \* lines 252-256 raise AttributeError: the run ends there
                    /\ messages' = {"exception: AttributeError"}
                    /\ df_display' = <<>>
                    /\ panel' = NoPanel
                    /\ rerun_pending' = FALSE
                    /\ UNCHANGED selected_pet_id
               ELSE LET e == SelectionEvent(display, ev, selected_pet_id) IN
                    /\ messages' = {}
                    /\ df_display' = display
                    /\ rerun_pending' = e.rerun
                    /\ IF e.rerun
                       THEN /\ selected_pet_id' = e.selected
                            /\ panel' = NoPanel
                       ELSE LET p == PetDetails(e.selected, sorted) IN
                            /\ selected_pet_id' = p.selected
                            /\ panel' = [kind |-> p.kind, pet_id |-> p.pet_id]

\* the rows the triage list of a run with filter sel can offer
Offered(sel) ==
    IF where_has_str THEN 0..Len(FilterRows(df, sel)) ELSE {0}

\* ---- one row: the detail panel and Primary_Concern ------------------------
\* the feature names a cell may hold: missing, blank, plain or SHAP- prefixed
FeatureNames == {NaN, "", "Age", "SHAP-Breed"}
LabelValues == {"0", "1", "2", NaN}
TeamValues == {NaN, "Foster Coordinator"}

\* lines 51-56 (the entries the model's names reach)
EMOJI_MAP(name) ==
    CASE name = "Breed" -> "dog"
      [] name = "Age" -> "cake"
      [] OTHER -> "question mark"

\* lines 93 and 256: replace('SHAP-', '') then strip(); a NaN cell stays NaN
\* under the .str accessor
Clean(name) ==
    CASE name = "SHAP-Breed" -> "Breed"
      [] OTHER -> name

\* the _Value and _Relative_Diff cells that go with a feature name; relative
\* differences are in thousandths
ValueOf(name) ==
    CASE name = "Age" -> "5"
      [] name = "SHAP-Breed" -> "Labrador"
      [] OTHER -> NaN
DiffOf(prefix, name) ==
    IF name \in {NaN, ""} THEN 0
    ELSE IF prefix = "Positive_Feature_"
         THEN (IF name = "Age" THEN 700 ELSE 129)
         ELSE (IF name = "Age" THEN -420 ELSE -56)

Row(label, team, pos, neg) ==
    [AnimalID |-> 1,
     predicted_score |-> 30,
     predicted_label |-> label,
     predicted_label_name |-> team,
     Feature |-> [p \in {"Positive_Feature_", "Negative_Feature_"} |->
                    IF p = "Positive_Feature_" THEN pos ELSE neg],
     Value |-> [p \in {"Positive_Feature_", "Negative_Feature_"} |->
                    [i \in 1..3 |-> ValueOf((IF p = "Positive_Feature_" THEN pos ELSE neg)[i])]],
     Relative_Diff |-> [p \in {"Positive_Feature_", "Negative_Feature_"} |->
                    [i \in 1..3 |-> DiffOf(p, (IF p = "Positive_Feature_" THEN pos ELSE neg)[i])]]]

Rows ==
    { Row(l, t, pos, neg) : l \in LabelValues, t \in TeamValues,
                            pos \in [1..3 -> FeatureNames],
                            neg \in [1..3 -> FeatureNames] }

IdleRow == Row(NaN, NaN, [i \in 1..3 |-> NaN], [i \in 1..3 |-> NaN])

Abs(x) == IF x < 0 THEN -x ELSE x

\* line 88: int(abs(raw_shap) * 100), raw_shap in thousandths
FormattedShap(shap) == (Abs(shap) * 100) \div 1000

\* line 87
MoreOrLess(shap) == IF shap < 0 THEN "less" ELSE "more"

\* lines 84-96: one factor of the panel
RenderFactor(name, value, shap) ==
    [emoji |-> EMOJI_MAP(Clean(name)),
     name |-> Clean(name),
     value |-> value,
     unit |-> IF name = "Age" THEN " years" ELSE "",
     formatted_shap |-> FormattedShap(shap),
     more_or_less |-> MoreOrLess(shap)]

\* lines 74-78
FeaturePrefix(label) ==
    IF label = "1" THEN "Positive_Feature_" ELSE "Negative_Feature_"

\* a test that lets a NaN name through
SkippedWhenBlank(name) == name = ""

\* line 82: the entry is skipped
Skipped(name) == name = "" \/ name = NaN

\* lines 80-96: the loop over ranks i..3, appending to factors_html
RECURSIVE FactorsFrom(_, _, _)
FactorsFrom(pd, prefix, i) ==
    IF i > 3 THEN <<>>
    ELSE IF Skipped(pd.Feature[prefix][i]) THEN FactorsFrom(pd, prefix, i + 1)
    ELSE <<RenderFactor(pd.Feature[prefix][i], pd.Value[prefix][i],
                        pd.Relative_Diff[prefix][i])>>
         \o FactorsFrom(pd, prefix, i + 1)

\* lines 98-110: the team section, present when the cell is not NaN
TeamModule(team) ==
    IF team # NaN
    THEN [shown |-> TRUE, name |-> team, title |-> "Predicted Outcome"]
    ELSE [shown |-> FALSE, name |-> "", title |-> ""]

\* lines 58-159
generate_full_dashboard_html(pd) ==
    [rendered |-> TRUE,
     pet_id |-> pd.AnimalID,
     score |-> pd.predicted_score,
     risk |-> DetailRisk(pd.predicted_score),
     team |-> TeamModule(pd.predicted_label_name),
     factors |-> FactorsFrom(pd, FeaturePrefix(pd.predicted_label), 1)]

NotRendered ==
    [rendered |-> FALSE, pet_id |-> None, score |-> 0, risk |-> NoRisk,
     team |-> TeamModule(NaN), factors |-> <<>>]

\* lines 252-255: the group Primary_Concern takes its rank-1 name from
ConcernPrefix(label) ==
    IF label = "0" THEN "Negative_Feature_" ELSE "Positive_Feature_"

\* lines 252-256: the Primary_Concern cell of a row.  np.where returns a
\* NumPy array, which has no .str accessor, so the expression raises
\* AttributeError; a library whose result has the accessor lets the run go on.
\* The libraries are not part of the source: where_has_str keeps both.
PrimaryConcern(pd) ==
    IF where_has_str
    THEN [built |-> TRUE, raised |-> FALSE,
          value |-> Clean(pd.Feature[ConcernPrefix(pd.predicted_label)][1])]
    ELSE [built |-> FALSE, raised |-> TRUE, value |-> NaN]

NotBuilt == [built |-> FALSE, raised |-> FALSE, value |-> NaN]

NoStatistic ==
    [emoji |-> "", name |-> "", value |-> "", unit |-> "",
     formatted_shap |-> 0, more_or_less |-> ""]

\* ---- idle values of the other specifications' variables ------------------
ScoreIdle ==
    /\ score = 0 /\ other_score = 0
    /\ adoptability_category = NoCategory /\ cell_style = "" /\ detail_risk = NoRisk

SessionIdle ==
    /\ df = <<>> /\ selected_pet_id = None
    /\ selected_animal_types = {} /\ event_rows = 0 /\ rerun_pending = FALSE
    /\ s3_ok = TRUE
    /\ load_attempts = 0 /\ messages = {} /\ filter_built = FALSE
    /\ filtered_df = <<>> /\ category_chart = CategoryCounts(<<>>)
    /\ score_hist = <<>> /\ df_display = <<>> /\ panel = NoPanel

RowIdle ==
    /\ pet_data = IdleRow /\ detail_html = NotRendered /\ Primary_Concern = NotBuilt

ShapIdle ==
    /\ raw_shap = 0 /\ statistic = NoStatistic

\* ---- Spec: the session ----------------------------------------------------
\* lines 47-49 and 189-193: before the first run nothing is selected and the
\* multiselect stands at its default, every animal type of the table
Init ==
    /\ df \in Tables
    /\ where_has_str \in BOOLEAN
    /\ selected_pet_id = None \* lines 47-49
    /\ selected_animal_types = animal_types(df)
    /\ event_rows = 0
    /\ rerun_pending = FALSE
    /\ s3_ok = TRUE
    /\ load_attempts = 0
    /\ messages = {}
    /\ filter_built = FALSE
    /\ filtered_df = <<>>
    /\ category_chart = CategoryCounts(<<>>)
    /\ score_hist = <<>>
    /\ df_display = <<>>
    /\ panel = NoPanel
    /\ ScoreIdle /\ RowIdle /\ ShapIdle

\* The page is opened or reloaded: the widgets keep their values, or fall
\* back to their defaults (a widget a run did not render loses its value).
Refresh(sel, ev, ok) ==
    /\ ~rerun_pending
    /\ sel \in {selected_animal_types, animal_types(df)}
    /\ ev \in {0, event_rows} \cap Offered(sel)
    /\ MainWorkflow(ok, sel, ev)
    /\ UNCHANGED <<df, where_has_str, scoreVars, rowVars, shapVars>>

\* The user changes the multiselect (189-193).  Whether the table keeps its
\* selected row when its rows change is the widget's: both are allowed.
ChangeFilter(sel, ev, ok) ==
    /\ ~rerun_pending
    /\ filter_built
    /\ sel \subseteq animal_types(df)
    /\ sel # selected_animal_types
    /\ ev \in {0, event_rows} \cap Offered(sel)
    /\ MainWorkflow(ok, sel, ev)
    /\ UNCHANGED <<df, where_has_str, scoreVars, rowVars, shapVars>>

\* The user clicks row i of the triage list on screen (265-272).
SelectRow(i, ok) ==
    /\ ~rerun_pending
    /\ i \in DOMAIN df_display
    /\ MainWorkflow(ok, selected_animal_types, i)
    /\ UNCHANGED <<df, where_has_str, scoreVars, rowVars, shapVars>>

\* st.rerun() (279): the script runs again with the same widget values.
ForcedRerun(ok) ==
    /\ rerun_pending
    /\ MainWorkflow(ok, selected_animal_types, event_rows)
    /\ UNCHANGED <<df, where_has_str, scoreVars, rowVars, shapVars>>

Next ==
    \/ \E sel \in SUBSET (AnimalTypeValues \ {NaN}), ev \in 0..MaxPets, ok \in BOOLEAN :
          Refresh(sel, ev, ok)
    \/ \E sel \in SUBSET (AnimalTypeValues \ {NaN}), ev \in 0..MaxPets, ok \in BOOLEAN :
          ChangeFilter(sel, ev, ok)
    \/ \E i \in 1..MaxPets, ok \in BOOLEAN : SelectRow(i, ok)
    \/ \E ok \in BOOLEAN : ForcedRerun(ok)

Spec == Init /\ [][Next]_vars

\* ---- SpecScore: a score in the chart, the table and the panel --------------
InitScore ==
    /\ score \in 0..MaxScore
    /\ other_score \in score..MaxScore
    /\ adoptability_category = NoCategory
    /\ cell_style = ""
    /\ detail_risk = NoRisk
    /\ where_has_str = TRUE
    /\ SessionIdle /\ RowIdle /\ ShapIdle

\* lines 204 and 210-218: the column is computed for every row, the chart
\* colours it by category
Categorize ==
    /\ adoptability_category = NoCategory
    /\ adoptability_category' =
          [first |-> get_adoptability_category(score),
           second |-> get_adoptability_category(other_score),
           color |-> ChartColor(get_adoptability_category(score))]
    /\ UNCHANGED <<score, other_score, cell_style, detail_risk,
                   sessionVars, rowVars, shapVars>>

\* line 266: applymap(color_score, subset=['Score'])
StyleCell ==
    /\ cell_style = ""
    /\ cell_style' = color_score(score)
    /\ UNCHANGED <<score, other_score, adoptability_category, detail_risk,
                   sessionVars, rowVars, shapVars>>

\* lines 112-114
RenderRisk ==
    /\ detail_risk = NoRisk
    /\ detail_risk' = DetailRisk(score)
    /\ UNCHANGED <<score, other_score, adoptability_category, cell_style,
                   sessionVars, rowVars, shapVars>>

NextScore == Categorize \/ StyleCell \/ RenderRisk

SpecScore == InitScore /\ [][NextScore]_vars

\* ---- SpecRow: one row in the panel and in the triage list -----------------
InitRow ==
    /\ pet_data \in Rows
    /\ detail_html = NotRendered
    /\ Primary_Concern = NotBuilt
    /\ where_has_str \in BOOLEAN
    /\ SessionIdle /\ ScoreIdle /\ ShapIdle

\* line 298
ShowDetail ==
    /\ ~detail_html.rendered
    /\ detail_html' = generate_full_dashboard_html(pet_data)
    /\ UNCHANGED <<pet_data, Primary_Concern, sessionVars, scoreVars, shapVars>>

\* lines 252-256
BuildPrimaryConcern ==
    /\ Primary_Concern = NotBuilt
    /\ Primary_Concern' = PrimaryConcern(pet_data)
    /\ UNCHANGED <<pet_data, detail_html, sessionVars, scoreVars, shapVars>>

NextRow == ShowDetail \/ BuildPrimaryConcern

SpecRow == InitRow /\ [][NextRow]_vars

\* ---- SpecShap: the sentence of one factor ------------------------------------
InitShap ==
    /\ raw_shap \in -MaxShap..MaxShap
    /\ statistic = NoStatistic
    /\ where_has_str = TRUE
    /\ SessionIdle /\ ScoreIdle /\ RowIdle

\* lines 84-96 for one entry whose name is not skipped
FormatFactor(name) ==
    /\ statistic = NoStatistic
    /\ statistic' = RenderFactor(name, ValueOf(name), raw_shap)
    /\ UNCHANGED <<raw_shap, sessionVars, scoreVars, rowVars>>

NextShap == \E name \in FeatureNames \ {NaN, ""} : FormatFactor(name)

SpecShap == InitShap /\ [][NextShap]_vars

\* ======================= the claims ========================================
Ids(d) == {d[i].AnimalID : i \in DOMAIN d}
PetIds(d) == {d[i].Pet_ID : i \in DOMAIN d}

\* ---- C1 (Spec) ------------------------------------------------------------
\* the rows of the table the selection names
RowsOfTypes(sel) == {i \in DOMAIN df : df[i].Animal_Type \in sel}

\* C1, as claimed: after every run that loaded the table the filtered view
\* holds exactly the rows whose animal type is in the selected set, so an
\* empty selection gives an empty view, triage list and histogram input.
\* (Stated for the tables whose rows all have an animal type.)
C1_ViewIsExactlySelected ==
    (filter_built /\ \A i \in DOMAIN df : df[i].Animal_Type # NaN) =>
        /\ Ids(filtered_df) = {df[i].AnimalID : i \in RowsOfTypes(selected_animal_types)}
        /\ (selected_animal_types = {} =>
                filtered_df = <<>> /\ df_display = <<>> /\ score_hist = <<>>)

\* C1, amended: a selection that is not empty gives exactly the rows whose
\* animal type is in it; the empty selection applies no filter and gives the
\* whole table, rows without an animal type included.  The histogram input
\* and, when the run reaches it, the triage list hold these rows.
C1_ViewIsSelectedOrAll ==
    filter_built =>
        LET want == IF selected_animal_types # {}
                    THEN RowsOfTypes(selected_animal_types)
                    ELSE DOMAIN df
        IN /\ Ids(filtered_df) = {df[i].AnimalID : i \in want}
           /\ Len(filtered_df) = Cardinality(want)
           /\ Len(score_hist) = Cardinality(want)
           /\ \A i \in DOMAIN filtered_df :
                 score_hist[i] = filtered_df[i].predicted_score
           /\ (where_has_str =>
                 /\ PetIds(df_display) = Ids(filtered_df)
                 /\ Len(df_display) = Cardinality(want))

\* C1 witness: the user emptied a multiselect that had types to offer and
\* the triage list shows every row of a table of two or more rows.
C1_EmptySelectionShowsAll ==
    /\ filter_built
    /\ selected_animal_types = {}
    /\ animal_types(df) # {}
    /\ Len(df) >= 2
    /\ Len(df_display) = Len(df)

\* ---- C2 (Spec) ------------------------------------------------------------
\* C2, as claimed: a run that reaches the detail panel leaves in
\* selected_pet_id either "none selected" or the id of a filtered row: an id
\* the filter removed has been reset.  (Stated for the ids other than 0,
\* which the panel takes for "none selected".)
C2_AbsentSelectionIsReset ==
    panel.kind # "none" =>
        (selected_pet_id \in {None, 0} \/ selected_pet_id \in Ids(filtered_df))

\* C2, amended: a run that reaches the detail panel with a selected id that
\* is absent from the filtered rows keeps the id (it is not reset) and shows
\* a placeholder without raising: "not found", or "click on a row" when the
\* id is 0; a run that finds the selected id, other than 0, among the
\* filtered rows, as after a filter change that brings the row back, shows
\* its detail with no new selection.
C2_AbsentSelectionIsKept ==
    [][ /\ (panel'.kind = "not_found" =>
               /\ selected_pet_id' = selected_pet_id
               /\ selected_pet_id' # None
               /\ selected_pet_id' \notin Ids(filtered_df')
               /\ messages' = {})
        /\ ((/\ panel'.kind # "none"
             /\ selected_pet_id \notin {None, 0}
             /\ selected_pet_id \notin Ids(filtered_df')
             /\ event_rows' = 0) =>
               panel'.kind = "not_found")
        /\ ((/\ panel'.kind # "none"
             /\ selected_pet_id = 0
             /\ selected_pet_id \notin Ids(filtered_df')
             /\ event_rows' = 0) =>
               (panel'.kind = "click" /\ selected_pet_id' = 0 /\ messages' = {}))
        /\ ((/\ panel'.kind # "none"
             /\ selected_pet_id \notin {None, 0}
             /\ selected_pet_id \in Ids(filtered_df')
             /\ event_rows' = 0) =>
               /\ panel' = [kind |-> "detail", pet_id |-> selected_pet_id]
               /\ selected_pet_id' = selected_pet_id)
      ]_vars

\* C2 witness: the panel shows "not found" for an id still held in the
\* session state, after a filter change that removed the row.
C2_NotFoundShown ==
    /\ panel.kind = "not_found"
    /\ selected_pet_id # None
    /\ selected_pet_id \in Ids(df) \ Ids(filtered_df)

\* ---- C9 (Spec) ------------------------------------------------------------
\* C9: a run whose load fails makes one attempt, shows the error and the
\* "could not be loaded" warning and nothing else (no exception, filter,
\* chart, triage list or detail panel), and leaves selected_pet_id as it was.
C9_FailedLoadRendersOnlyWarning ==
    [][ ~s3_ok' =>
          /\ load_attempts' = 1
          /\ messages' = {"error: Error loading data from S3",
                          "warning: Data could not be loaded"}
          /\ ~filter_built'
          /\ filtered_df' = <<>>
          /\ \A c \in DOMAIN category_chart' : category_chart'[c] = 0
          /\ score_hist' = <<>>
          /\ df_display' = <<>>
          /\ panel'.kind = "none"
          /\ ~rerun_pending'
          /\ selected_pet_id' = selected_pet_id
      ]_vars

\* C9 witness: the load failed in a session that holds a selected pet.
C9_FailedLoadWithSelection ==
    /\ ~s3_ok
    /\ selected_pet_id # None
    /\ "warning: Data could not be loaded" \in messages

\* ---- C10 (Spec) -----------------------------------------------------------
\* C10: once the runs started by a selection of a row of the triage list are
\* over, selected_pet_id is that row's id and the panel shows its detail,
\* whatever the id (0 included).
C10_SelectedRowIsShown ==
    (filter_built /\ ~rerun_pending /\ event_rows \in DOMAIN df_display) =>
        /\ selected_pet_id = df_display[event_rows].Pet_ID
        /\ panel = [kind |-> "detail", pet_id |-> df_display[event_rows].Pet_ID]

\* ---- C3 (SpecScore) -------------------------------------------------------
\* red, amber or green
Band(colour) ==
    CASE colour \in {"#FF6B6B", "background-color: #FF6B6B; color: white", "bg-red-500"} -> "red"
      [] colour \in {"#FFD166", "background-color: #FFD166", "bg-yellow-500"} -> "amber"
      [] colour \in {"#06D6A0", "background-color: #06D6A0; color: white", "bg-green-500"} -> "green"

\* C3: a score gets the same risk category and the same colour in the
\* category chart, in its Score cell and in the detail panel.
C3_SameBandEverywhere ==
    (adoptability_category # NoCategory /\ cell_style # "" /\ detail_risk # NoRisk) =>
        /\ Band(adoptability_category.color) = Band(cell_style)
        /\ Band(cell_style) = Band(detail_risk.progress_color)
        /\ adoptability_category.first = detail_risk.risk_category

\* ---- C4 (SpecScore) -------------------------------------------------------
RiskRank(category) ==
    CASE category = "High Risk" -> 3
      [] category = "Medium Risk" -> 2
      [] category = "Low Risk" -> 1

\* C4: the category of a score is one of High, Medium, Low Risk: High up to
\* 33, Medium above 33 up to 66, Low above 66; and of two scores the higher
\* one never has the higher risk.
C4_CategoryThresholdsMonotonic ==
    adoptability_category # NoCategory =>
        /\ adoptability_category.first \in {"High Risk", "Medium Risk", "Low Risk"}
        /\ adoptability_category.second \in {"High Risk", "Medium Risk", "Low Risk"}
        /\ (adoptability_category.first = "High Risk" <=> score <= 33)
        /\ (adoptability_category.first = "Medium Risk" <=> (33 < score /\ score <= 66))
        /\ (adoptability_category.first = "Low Risk" <=> 66 < score)
        /\ RiskRank(adoptability_category.second) <= RiskRank(adoptability_category.first)

\* C4 witness: the column is computed for a High Risk score at the first
\* threshold and a Low Risk score just above the second.
C4_HighAndLowCategorized ==
    /\ score = 33 /\ other_score = 67
    /\ adoptability_category.first = "High Risk"
    /\ adoptability_category.second = "Low Risk"

\* ---- C5 (SpecRow) ---------------------------------------------------------
\* the ranks of the panel's group whose name is neither NaN nor blank
ValidRanks(pd) ==
    {i \in 1..3 : pd.Feature[FeaturePrefix(pd.predicted_label)][i] \notin {NaN, ""}}

\* the k-th of them, counting upwards
KthValid(pd, k) ==
    CHOOSE i \in ValidRanks(pd) : Cardinality({j \in ValidRanks(pd) : j < i}) = k - 1

\* C5: the factors of the panel are the entries of ranks 1..3 of the
\* selected group whose name is neither blank nor NaN, each once, in rank
\* order, at most three; none when no entry is valid.
C5_FactorsAreValidEntriesInOrder ==
    detail_html.rendered =>
        LET p == FeaturePrefix(pet_data.predicted_label)
            f == detail_html.factors
        IN /\ Len(f) = Cardinality(ValidRanks(pet_data))
           /\ Len(f) <= 3
           /\ \A k \in DOMAIN f :
                 LET i == KthValid(pet_data, k) IN
                 /\ f[k].name = Clean(pet_data.Feature[p][i])
                 /\ f[k].value = pet_data.Value[p][i]
                 /\ f[k].more_or_less =
                       (IF pet_data.Relative_Diff[p][i] < 0 THEN "less" ELSE "more")

\* C5 witness: a rendered panel whose group has a NaN name at rank 1 and the
\* same valid name at ranks 2 and 3: two factors, not one.
C5_NaNSkippedDuplicateKept ==
    /\ detail_html.rendered
    /\ LET names == pet_data.Feature[FeaturePrefix(pet_data.predicted_label)] IN
       /\ names[1] = NaN
       /\ names[2] = "Age" /\ names[3] = "Age"
    /\ Len(detail_html.factors) = 2

\* ---- C6 (SpecShap) --------------------------------------------------------
\* round(n / d) as Python rounds: to the nearest integer, a half to the even
RoundHalfEven(n, d) ==
    LET q == n \div d
        r == n % d
    IN IF 2 * r < d THEN q
       ELSE IF 2 * r > d THEN q + 1
       ELSE IF q % 2 = 0 THEN q ELSE q + 1

\* C6: the sentence says "more" for a relative effect >= 0 and "less" below
\* 0, and its percentage is round(abs(relative_effect) * 100).
C6_DirectionAndRoundedPercentage ==
    statistic # NoStatistic =>
        /\ statistic.more_or_less = (IF raw_shap >= 0 THEN "more" ELSE "less")
        /\ statistic.formatted_shap = RoundHalfEven(Abs(raw_shap) * 100, 1000)

\* ---- C7 (SpecRow) ---------------------------------------------------------
\* C7: the Primary_Concern of a row is the rank-1 name of the group the
\* detail panel picks for the row, whatever its predicted_label.  (Stated
\* for the rows whose two rank-1 names are both valid, so that a difference
\* is a difference of features.)
C7_ConcernIsPanelGroupRank1 ==
    (/\ Primary_Concern.built
     /\ ~Skipped(pet_data.Feature["Positive_Feature_"][1])
     /\ ~Skipped(pet_data.Feature["Negative_Feature_"][1])) =>
        Primary_Concern.value =
            Clean(pet_data.Feature[FeaturePrefix(pet_data.predicted_label)][1])

\* ---- C8 (SpecRow) ---------------------------------------------------------
\* C8: the panel of a row predicted as adopted (label 1) has no team
\* section, whatever the team cell holds.
C8_NoTeamForAdopted ==
    (detail_html.rendered /\ pet_data.predicted_label = "1") =>
        ~detail_html.team.shown

====
